---------------------------- MODULE Spec2Model ----------------------------
(***************************************************************************)
(* AURA (src/app.py): the two renderers of the strategy text               *)
(* (generate_pdf with _sanitize_text, _markdown_to_safe_html) and the      *)
(* submission handler main() with the three-stage crew it drives.          *)
(*                                                                         *)
(* A text is a sequence of characters; a character is a one-character      *)
(* string, and a character outside ASCII is written by its code point      *)
(* ("U+2014").  In the output of _markdown_to_safe_html an element of the  *)
(* sequence is either a character of the (escaped) input or one literal    *)
(* the renderer wrote as a whole (an entity such as "&lt;", a tag such as  *)
(* "<h1>").                                                                *)
(***************************************************************************)
EXTENDS Integers, Sequences, FiniteSets, TLC

VARIABLES
    text,        \* the text handed to the renderers (strategy_text)
    applied,     \* which of the pure functions have been applied to text
    sanitized,   \* result of _sanitize_text(text)
    pdfSegs,     \* what generate_pdf's loop emitted, one record per line
    htmlSegs,    \* what _markdown_to_safe_html's loop emitted, one record per line
    htmlOut,     \* the string _markdown_to_safe_html returns
    pc,              \* where main() stands in the current script run
    runs,            \* submissions (button clicks) made in this session
    product_concept, \* the text area's content at the click
    secrets,         \* st.secrets["ANTHROPIC_API_KEY"]
    environ,         \* os.getenv("ANTHROPIC_API_KEY")
    api_key,         \* main's api_key
    ui,              \* the elements the current script run has put on the page
    calls,           \* invocations made by the current script run, per function
    stage,           \* the crew task that runs next (1..3), 4 when all are done
    artifacts,       \* the outputs of the finished tasks, in order
    running,         \* the crew task that is executing (1..3), 0 when none is
    contexts,        \* what each started task was given
    searches,        \* what web_search returned, call by call
    log,             \* how each finished script run ended
    file_name        \* the file_name of the download button, once it is made

rvars == <<text, applied, sanitized, pdfSegs, htmlSegs, htmlOut>>

mvars == <<pc, runs, product_concept, secrets, environ, api_key, ui, calls,
           stage, running, artifacts, contexts, searches, log, file_name>>

vars == <<rvars, mvars>>

-----------------------------------------------------------------------------
(* Bounds of the model *)

MaxBody == 3      \* characters of free text after a line's marker
MaxSanLen == 3    \* characters of a text given to _sanitize_text alone
MaxHtmlLen == 3   \* characters after the marker of a text with markup characters
MaxInlineLen == 7 \* characters of a line of emphasis markers and text
MaxNameEdge == 2  \* free characters at each end of a long product concept
MaxRuns == 2      \* submissions in one session
MaxSearches == 1  \* web_search calls the researcher makes in one run

-----------------------------------------------------------------------------
(* Python string primitives *)

\* str.isspace() characters that occur in the model's alphabets
Whitespace == {" ", "\t", "\n", "\r", "U+00A0"}

Digits == {"0", "1", "2", "3", "4", "5", "6", "7", "8", "9"}

StartsWith(s, p) == Len(s) >= Len(p) /\ SubSeq(s, 1, Len(p)) = p

EndsWith(s, p) == Len(s) >= Len(p) /\ SubSeq(s, Len(s) - Len(p) + 1, Len(s)) = p

\* the characters that occur in s
Range(s) == {s[i] : i \in 1..Len(s)}

\* s[n:]
Drop(s, n) == SubSeq(s, n + 1, Len(s))

RECURSIVE LStripChars(_, _)
\* s.lstrip(chars): drops every leading character that is in chars
LStripChars(s, chars) ==
    IF s = <<>> \/ Head(s) \notin chars THEN s
    ELSE LStripChars(Tail(s), chars)

RECURSIVE RStripChars(_, _)
\* s.rstrip(chars)
RStripChars(s, chars) ==
    IF s = <<>> \/ s[Len(s)] \notin chars THEN s
    ELSE RStripChars(SubSeq(s, 1, Len(s) - 1), chars)

\* s.strip(chars)
StripChars(s, chars) == RStripChars(LStripChars(s, chars), chars)

\* s.strip()
Strip(s) == StripChars(s, Whitespace)

RECURSIVE SplitLines(_)
\* s.split("\n"): always at least one line, the separators are not kept
SplitLines(s) ==
    IF \A i \in 1..Len(s) : s[i] # "\n" THEN <<s>>
    ELSE LET i == CHOOSE k \in 1..Len(s) :
                      s[k] = "\n" /\ \A j \in 1..(k - 1) : s[j] # "\n"
         IN <<SubSeq(s, 1, i - 1)>> \o SplitLines(Drop(s, i))

RECURSIVE Concat(_)
\* the concatenation of a sequence of sequences
Concat(ss) == IF ss = <<>> THEN <<>> ELSE Head(ss) \o Concat(Tail(ss))

RECURSIVE JoinLines(_)
\* "\n".join(out)
JoinLines(ss) ==
    IF ss = <<>> THEN <<>>
    ELSE IF Len(ss) = 1 THEN ss[1]
    ELSE ss[1] \o <<"\n">> \o JoinLines(Tail(ss))

-----------------------------------------------------------------------------
(* _sanitize_text *)

\* the replacements dict, in insertion order
replacements == <<
    <<"U+2014", <<"-", "-">> >>,
    <<"U+2013", <<"-">> >>,
    <<"U+2018", <<"'">> >>,
    <<"U+2019", <<"'">> >>,
    <<"U+201C", <<"\"">> >>,
    <<"U+201D", <<"\"">> >>,
    <<"U+2026", <<".", ".", ".">> >>,
    <<"U+2022", <<"*">> >>,
    <<"U+00A0", <<" ">> >>,
    <<"U+2010", <<"-">> >>,
    <<"U+2011", <<"-">> >>,
    <<"U+2012", <<"-">> >>,
    <<"U+00B7", <<"*">> >>,
    <<"U+25CF", <<"*">> >>,
    <<"U+25CB", <<"o">> >>,
    <<"U+2023", <<">">> >>,
    <<"U+00E9", <<"e">> >>,
    <<"U+00E8", <<"e">> >>,
    <<"U+00E0", <<"a">> >>,
    <<"U+00FC", <<"u">> >>,
    <<"U+2033", <<"\"">> >>,
    <<"U+2032", <<"'">> >> >>

\* the characters of the model that have no Latin-1 code (code point above U+00FF)
NonLatin1 == {"U+2014", "U+2013", "U+2018", "U+2019", "U+201C", "U+201D",
              "U+2026", "U+2022", "U+2010", "U+2011", "U+2012", "U+25CF",
              "U+25CB", "U+2023", "U+2033", "U+2032", "U+4E2D", "U+20B9"}

RECURSIVE Replace(_, _, _)
\* text.replace(char, repl) for a one-character char
Replace(s, char, repl) ==
    IF s = <<>> THEN <<>>
    ELSE (IF Head(s) = char THEN repl ELSE <<Head(s)>>) \o Replace(Tail(s), char, repl)

RECURSIVE ReplaceFrom(_, _)
\* the loop over replacements.items(), from entry k on
ReplaceFrom(s, k) ==
    IF k > Len(replacements) THEN s
    ELSE ReplaceFrom(Replace(s, replacements[k][1], replacements[k][2]), k + 1)

\* the character errors="replace" puts for one the codec cannot encode
EncodeReplacement(c) == "?"

\* errors="ignore": a character the codec cannot encode is dropped
Latin1Ignore(s) == SelectSeq(s, LAMBDA c : c \notin NonLatin1)

\* text.encode("latin-1", errors="replace").decode("latin-1")
Latin1RoundTrip(s) ==
    [i \in 1..Len(s) |-> IF s[i] \in NonLatin1 THEN EncodeReplacement(s[i]) ELSE s[i]]

_sanitize_text(s) == Latin1RoundTrip(ReplaceFrom(s, 1))

-----------------------------------------------------------------------------
(* generate_pdf: the body loop *)

\* a heading test that forgets the blank after the marker
PdfIsH1NoBlank(stripped) == StartsWith(stripped, <<"#">>)

\* stripped.startswith("# ")
PdfIsH1(stripped) == StartsWith(stripped, <<"#", " ">>)

\* stripped.startswith("## ")
PdfIsH2(stripped) == StartsWith(stripped, <<"#", "#", " ">>)

\* stripped.startswith("### ")
PdfIsH3(stripped) == StartsWith(stripped, <<"#", "#", "#", " ">>)

\* stripped.lstrip("# ").strip()
PdfHeadingText(stripped) == Strip(LStripChars(stripped, {"#", " "}))

\* stripped.startswith("**") and stripped.endswith("**")
PdfIsBold(stripped) ==
    StartsWith(stripped, <<"*", "*">>) /\ EndsWith(stripped, <<"*", "*">>)

\* clean = stripped.strip("*").strip()
PdfBoldText(stripped) == Strip(StripChars(stripped, {"*"}))

\* stripped.startswith(("- ", "* ", "• "))
PdfIsBullet(stripped) ==
    \/ StartsWith(stripped, <<"-", " ">>)
    \/ StartsWith(stripped, <<"*", " ">>)
    \/ StartsWith(stripped, <<"U+2022", " ">>)

\* bullet_text = "  " + stripped.lstrip("-*• ").strip()
PdfBulletText(stripped) ==
    <<" ", " ">> \o Strip(LStripChars(stripped, {"-", "*", "U+2022", " "}))

\* re.match(r"^\d+[\.\)]\s", stripped)
PdfIsNumbered(stripped) ==
    \E n \in 1..Len(stripped) :
        /\ \A i \in 1..n : stripped[i] \in Digits
        /\ Len(stripped) >= n + 2
        /\ stripped[n + 1] \in {".", ")"}
        /\ stripped[n + 2] \in Whitespace

\* one pass of the for loop: the branch taken (kind), the text given to
\* multi_cell (payload) and the font size set for it
PdfLine(line) ==
    LET stripped == Strip(line) IN
    IF stripped = <<>> THEN
        [stripped |-> stripped, kind |-> "blank", payload |-> <<>>, size |-> 0]
    ELSE IF PdfIsH1(stripped) THEN
        [stripped |-> stripped, kind |-> "heading-1",
         payload |-> PdfHeadingText(stripped), size |-> 16]
    ELSE IF PdfIsH2(stripped) THEN
        [stripped |-> stripped, kind |-> "heading-2",
         payload |-> PdfHeadingText(stripped), size |-> 13]
    ELSE IF PdfIsH3(stripped) THEN
        [stripped |-> stripped, kind |-> "heading-3",
         payload |-> PdfHeadingText(stripped), size |-> 11]
    ELSE IF PdfIsBold(stripped) THEN
        [stripped |-> stripped, kind |-> "bold-label",
         payload |-> PdfBoldText(stripped), size |-> 11]
    ELSE IF PdfIsBullet(stripped) THEN
        [stripped |-> stripped, kind |-> "bullet-item",
         payload |-> PdfBulletText(stripped), size |-> 10]
    ELSE IF PdfIsNumbered(stripped) THEN
        [stripped |-> stripped, kind |-> "numbered-item",
         payload |-> <<" ", " ">> \o stripped, size |-> 10]
    ELSE
        [stripped |-> stripped, kind |-> "paragraph", payload |-> stripped, size |-> 10]

\* sanitized = _sanitize_text(strategy_text); lines = sanitized.split("\n");
\* for line in lines: ...
PdfBody(strategy_text) ==
    LET lines == SplitLines(_sanitize_text(strategy_text))
    IN [i \in 1..Len(lines) |-> PdfLine(lines[i])]

-----------------------------------------------------------------------------
(* _markdown_to_safe_html *)

\* html.escape(text, quote=False): the quotes are left as they are
EscapeCharNoQuote(c) ==
    CASE c = "&"  -> "&amp;"
      [] c = "<"  -> "&lt;"
      [] c = ">"  -> "&gt;"
      [] OTHER    -> c

\* html.escape(text): & < > " ' are written as entities, all else is kept
EscapeChar(c) ==
    CASE c = "&"  -> "&amp;"
      [] c = "<"  -> "&lt;"
      [] c = ">"  -> "&gt;"
      [] c = "\"" -> "&quot;"
      [] c = "'"  -> "&#x27;"
      [] OTHER    -> c

html_escape(s) == [i \in 1..Len(s) |-> EscapeChar(s[i])]

RECURSIVE BoldSub(_)
\* re.sub(r"\*\*(.+?)\*\*", r"<strong>\1</strong>", stripped): leftmost match,
\* shortest group, the search resumes after the closing pair
BoldSub(s) ==
    IF s = <<>> THEN <<>>
    ELSE LET closers == {j \in 4..(Len(s) - 1) : s[j] = "*" /\ s[j + 1] = "*"} IN
         IF Len(s) >= 2 /\ s[1] = "*" /\ s[2] = "*" /\ closers # {}
         THEN LET j == CHOOSE k \in closers : \A m \in closers : k <= m
              IN <<"<strong>">> \o SubSeq(s, 3, j - 1) \o <<"</strong>">>
                     \o BoldSub(Drop(s, j + 1))
         ELSE <<Head(s)>> \o BoldSub(Tail(s))

\* (?<!\*)\*(?!\*) at position i of s
LoneStar(s, i) ==
    /\ s[i] = "*"
    /\ (i > 1 => s[i - 1] # "*")
    /\ (i < Len(s) => s[i + 1] # "*")

RECURSIVE ItalicFrom(_, _)
\* re.sub(r"(?<!\*)\*(?!\*)(.+?)(?<!\*)\*(?!\*)", r"<em>\1</em>", stripped),
\* scanning from position i; the look-behinds read the whole of s
ItalicFrom(s, i) ==
    IF i > Len(s) THEN <<>>
    ELSE LET closers == {j \in (i + 2)..Len(s) : LoneStar(s, j)} IN
         IF LoneStar(s, i) /\ closers # {}
         THEN LET j == CHOOSE k \in closers : \A m \in closers : k <= m
              IN <<"<em>">> \o SubSeq(s, i + 1, j - 1) \o <<"</em>">>
                     \o ItalicFrom(s, j + 1)
         ELSE <<s[i]>> \o ItalicFrom(s, i + 1)

ItalicSub(s) == ItalicFrom(s, 1)

\* re.match(r"^[-*]\s", stripped)
HtmlIsBullet(s) == Len(s) >= 2 /\ s[1] \in {"-", "*"} /\ s[2] \in Whitespace

\* one pass of the for loop: the branch taken (kind), the text put inside
\* the element (payload) and what is appended to out (markup)
HtmlLine(line) ==
    LET stripped == Strip(line) IN
    IF stripped = <<>> THEN
        [stripped |-> stripped, kind |-> "blank", payload |-> <<>>,
         markup |-> <<"<br>">>]
    ELSE IF StartsWith(stripped, <<"#", "#", "#", " ">>) THEN
        [stripped |-> stripped, kind |-> "heading-3", payload |-> Drop(stripped, 4),
         markup |-> <<"<h3>">> \o Drop(stripped, 4) \o <<"</h3>">>]
    ELSE IF StartsWith(stripped, <<"#", "#", " ">>) THEN
        [stripped |-> stripped, kind |-> "heading-2", payload |-> Drop(stripped, 3),
         markup |-> <<"<h2>">> \o Drop(stripped, 3) \o <<"</h2>">>]
    ELSE IF StartsWith(stripped, <<"#", " ">>) THEN
        [stripped |-> stripped, kind |-> "heading-1", payload |-> Drop(stripped, 2),
         markup |-> <<"<h1>">> \o Drop(stripped, 2) \o <<"</h1>">>]
    ELSE
        LET inline == ItalicSub(BoldSub(stripped)) IN
        IF HtmlIsBullet(inline) THEN
            [stripped |-> stripped, kind |-> "bullet-item", payload |-> Drop(inline, 2),
             markup |-> <<"<p style='margin:0.3rem 0;'>", "&bull;&nbsp;">>
                            \o Drop(inline, 2) \o <<"</p>">>]
        ELSE
            [stripped |-> stripped, kind |-> "paragraph", payload |-> inline,
             markup |-> <<"<p style='margin:0.3rem 0;'>">> \o inline \o <<"</p>">>]

\* escaped = html_mod.escape(text); lines = escaped.split("\n"); for line in lines: ...
HtmlBody(t) ==
    LET lines == SplitLines(html_escape(t))
    IN [i \in 1..Len(lines) |-> HtmlLine(lines[i])]

\* return "\n".join(out)
_markdown_to_safe_html(t) ==
    LET segs == HtmlBody(t) IN JoinLines([i \in 1..Len(segs) |-> segs[i].markup])

-----------------------------------------------------------------------------
(* The renderers applied to a text *)

\* all texts of at most n characters over the alphabet
TextsUpTo(alphabet, n) == UNION {[1..k -> alphabet] : k \in 0..n}

\* line openers the renderers look for
Markers == {<<>>, <<"#", " ">>, <<"#", "#", " ">>, <<"#", "#", "#", " ">>,
            <<"*", "*">>, <<"-", " ">>, <<"*", " ">>, <<"U+2022", " ">>,
            <<"1", ".", " ">>}

MarkdownAlphabet == {"#", " ", "*", "-", "a", "\n"}

\* texts a language model may produce: an opener, then free markdown text
MarkdownTexts == {m \o b : m \in Markers, b \in TextsUpTo(MarkdownAlphabet, MaxBody)}

SanitizeAlphabet == {"a", "U+2014", "U+2019", "U+2026", "U+00E9", "U+4E2D", "U+20B9"}

NotApplied ==
    /\ applied = {}
    /\ sanitized = <<>>
    /\ pdfSegs = <<>>
    /\ htmlSegs = <<>>
    /\ htmlOut = <<>>

Fns == {"run_aura_crew", "llm", "web_search", "_markdown_to_safe_html", "generate_pdf"}

\* no submission is in progress and none was made
NoRun ==
    /\ pc = "idle"
    /\ runs = 0
    /\ api_key = ""
    /\ ui = {}
    /\ calls = [f \in Fns |-> 0]
    /\ stage = 0
    /\ running = 0
    /\ file_name = <<>>
    /\ artifacts = <<>>
    /\ contexts = <<>>
    /\ searches = <<>>
    /\ log = <<>>

\* nothing is typed, no submission is in progress and none was made
NoSession == product_concept = <<>> /\ NoRun

\* sanitized = _sanitize_text(text)
SanitizeText ==
    /\ "sanitize" \notin applied
    /\ applied' = applied \cup {"sanitize"}
    /\ sanitized' = _sanitize_text(text)
    /\ UNCHANGED <<text, pdfSegs, htmlSegs, htmlOut>>
    /\ UNCHANGED mvars

\* generate_pdf(text, ...): the body loop over the sanitized lines
GeneratePdf ==
    /\ "pdf" \notin applied
    /\ applied' = applied \cup {"pdf"}
    /\ pdfSegs' = PdfBody(text)
    /\ UNCHANGED <<text, sanitized, htmlSegs, htmlOut>>
    /\ UNCHANGED mvars

\* _markdown_to_safe_html(text)
MarkdownToSafeHtml ==
    /\ "html" \notin applied
    /\ applied' = applied \cup {"html"}
    /\ htmlSegs' = HtmlBody(text)
    /\ htmlOut' = _markdown_to_safe_html(text)
    /\ UNCHANGED <<text, sanitized, pdfSegs>>
    /\ UNCHANGED mvars

\* neither source holds a key
Unconfigured == secrets = "<absent>" /\ environ = "<absent>"

RenderInit == text \in MarkdownTexts /\ NotApplied /\ NoSession /\ Unconfigured

RenderNext == GeneratePdf \/ MarkdownToSafeHtml

\* both renderers on one markdown text, in either order
SpecRender == RenderInit /\ [][RenderNext]_vars

SanitizeInit ==
    /\ text \in TextsUpTo(SanitizeAlphabet, MaxSanLen)
    /\ NotApplied /\ NoSession /\ Unconfigured

\* _sanitize_text on a text with characters outside Latin-1
SpecSanitize == SanitizeInit /\ [][SanitizeText]_vars

HtmlAlphabet == {"<", ">", "&", "\"", "'", "*", "a", " ", "\n"}

HtmlInit ==
    /\ text \in {m \o b : m \in Markers, b \in TextsUpTo(HtmlAlphabet, MaxHtmlLen)}
    /\ NotApplied /\ NoSession /\ Unconfigured

\* _markdown_to_safe_html on a text that holds markup-significant characters
SpecHtml == HtmlInit /\ [][MarkdownToSafeHtml]_vars

InlineAlphabet == {"*", "a", " "}

InlineInit ==
    /\ text \in {t \in TextsUpTo(InlineAlphabet, MaxInlineLen) : "a" \in Range(t)}
    /\ NotApplied /\ NoSession /\ Unconfigured

\* _markdown_to_safe_html on one line of asterisks and text
SpecInline == InlineInit /\ [][MarkdownToSafeHtml]_vars

-----------------------------------------------------------------------------
(* Properties of the renderers *)

BothApplied == {"pdf", "html"} \subseteq applied

\* C1: for every line of the text, generate_pdf and _markdown_to_safe_html
\* take the branch of the same kind and handle the same cleaned payload
\* (compared without the padding blanks a backend adds around it).
C1_SameDispatch ==
    BothApplied =>
        /\ Len(pdfSegs) = Len(htmlSegs)
        /\ \A i \in 1..Len(pdfSegs) :
               /\ pdfSegs[i].kind = htmlSegs[i].kind
               /\ Strip(pdfSegs[i].payload) = Strip(htmlSegs[i].payload)

HeadingPriority(seg) ==
    /\ StartsWith(seg.stripped, <<"#", "#", "#", " ">>) => seg.kind = "heading-3"
    /\ StartsWith(seg.stripped, <<"#", "#", " ">>) => seg.kind = "heading-2"
    /\ StartsWith(seg.stripped, <<"#", " ">>) => seg.kind = "heading-1"
    /\ StartsWith(seg.stripped, <<"#", "#">>) => seg.kind # "heading-1"

\* C2: in both backends a trimmed line starting with "### " is a heading-3,
\* one starting with "## " a heading-2, one starting with "# " a heading-1,
\* and no line starting with "##" is ever a heading-1.
C2_HeadingPriority ==
    /\ \A i \in 1..Len(pdfSegs) : HeadingPriority(pdfSegs[i])
    /\ \A i \in 1..Len(htmlSegs) : HeadingPriority(htmlSegs[i])

\* C2 witness: both backends have rendered a text whose first line is a
\* "### " line and made it a heading-3.
C2_Witness ==
    /\ BothApplied
    /\ StartsWith(text, <<"#", "#", "#", " ", "a">>)
    /\ pdfSegs[1].kind = "heading-3"
    /\ htmlSegs[1].kind = "heading-3"

BulletMarkers == {<<"-", " ">>, <<"*", " ">>, <<"U+2022", " ">>}

\* C3: for every trimmed line that starts with a bullet marker generate_pdf
\* emits two blanks followed by the text after the marker (trimmed), with
\* no character of that text removed.
C3_BulletPayload ==
    \A i \in 1..Len(pdfSegs) :
        (\E m \in BulletMarkers : StartsWith(pdfSegs[i].stripped, m)) =>
            /\ pdfSegs[i].kind = "bullet-item"
            /\ pdfSegs[i].payload = <<" ", " ">> \o Strip(Drop(pdfSegs[i].stripped, 2))

\* C4: generate_pdf makes a non-heading line a bold-label exactly when it
\* starts with "**", ends with "**" and is not merely "**"; the payload is
\* the line without its leading and trailing "*" (trimmed).
C4_BoldLabel ==
    \A i \in 1..Len(pdfSegs) :
        LET seg == pdfSegs[i] IN
        seg.kind \notin {"blank", "heading-1", "heading-2", "heading-3"} =>
            /\ seg.kind = "bold-label" <=>
                   /\ StartsWith(seg.stripped, <<"*", "*">>)
                   /\ EndsWith(seg.stripped, <<"*", "*">>)
                   /\ seg.stripped # <<"*", "*">>
            /\ seg.kind = "bold-label" =>
                   seg.payload = Strip(StripChars(seg.stripped, {"*"}))

\* what the claim says one input character becomes
SanitizedImage(c) ==
    CASE c = "U+2014" -> <<"-", "-">>
      [] c = "U+2019" -> <<"'">>
      [] c \in {"U+4E2D", "U+20B9"} -> <<"?">>
      [] OTHER -> <<c>>

\* C5: the result of _sanitize_text holds Latin-1 characters only and is no
\* shorter than the input; in a text of plain letters, em dashes, right
\* quotes and characters the table does not know, each em dash has become
\* "--", each right quote "'" and each unknown character the placeholder "?".
C5_SanitizeTotal ==
    "sanitize" \in applied =>
        /\ Range(sanitized) \cap NonLatin1 = {}
        /\ Len(sanitized) >= Len(text)
        /\ Range(text) \subseteq {"a", "U+2014", "U+2019", "U+4E2D", "U+20B9"} =>
               sanitized = Concat([i \in 1..Len(text) |-> SanitizedImage(text[i])])

\* C5 witness: an em dash, an unknown character and a right quote have
\* been sanitized.
C5_Witness ==
    /\ "sanitize" \in applied
    /\ text = <<"U+2014", "U+20B9", "U+2019">>
    /\ sanitized = <<"-", "-", "?", "'">>

MarkupSignificant == {"<", ">", "&", "\"", "'"}

Entities == {"&amp;", "&lt;", "&gt;", "&quot;", "&#x27;"}

\* every literal the renderer writes itself
EmittedMarkup == {"<h1>", "</h1>", "<h2>", "</h2>", "<h3>", "</h3>",
                  "<p style='margin:0.3rem 0;'>", "</p>", "<strong>", "</strong>",
                  "<em>", "</em>", "<br>", "&bull;&nbsp;", "\n"}

\* C6: in the output of _markdown_to_safe_html no markup-significant
\* character of the input stands unescaped: every element of the output is
\* a tag the renderer wrote, an entity, or a harmless input character.
C6_NoInjectedMarkup ==
    "html" \in applied =>
        \A i \in 1..Len(htmlOut) :
            /\ htmlOut[i] \notin MarkupSignificant
            /\ \/ htmlOut[i] \in EmittedMarkup
               \/ htmlOut[i] \in Entities
               \/ htmlOut[i] \in Range(text) \ MarkupSignificant

\* C6 witness: a text holding "<" and a quote has been rendered, and the
\* output holds their entities.
C6_Witness ==
    /\ "html" \in applied
    /\ {"<", "'"} \subseteq Range(text)
    /\ {"&lt;", "&#x27;"} \subseteq Range(htmlOut)

-----------------------------------------------------------------------------
(* main(): one script run per click of "Initialize Launch Strategy" *)

\* st.secrets has no such entry (the lookup raises) / os.getenv returns None
Absent == "<absent>"

KeySources == {Absent, "", "sk-ant"}

\* what the user may have typed into the text area
Concepts == {<<>>, <<" ">>, <<" ", " ">>, <<"a">>, <<" ", "a", " ">>}

\* what a task of the crew may answer
ArtifactTexts == {<<"a">>, <<"#", " ", "a", "\n", "-", " ", "a">>}

\* what the last task may answer: the strategy text
StrategyTexts == {<<"#", " ", "a">>, <<"*", "*", "a", "*", "*", "\n", "-", " ", "a">>,
                  <<"a", "U+2014", "<", "a", ">">>}

\* key = st.secrets[...], on any exception os.getenv(...); return key or ""
_get_api_key(sec, env) ==
    LET key == IF sec # Absent THEN sec ELSE env
    IN IF key \in {Absent, ""} THEN "" ELSE key

\* not product_concept: the blanks are not stripped
ConceptIsEmptyNoStrip(concept) == concept = <<>>

\* not product_concept.strip()
ConceptIsEmpty(concept) == Strip(concept) = <<>>

\* api_key is None
NoApiKeyIsNone(key) == key = Absent

\* not api_key
NoApiKey(key) == key = ""

\* return [research_task, strategy_task, execution_task]: the order of the crew's tasks
Tasks == <<"research", "strategy", "execution">>

\* a context that hands on the output of the task before only
TaskContextLastOnly(i) == IF i = 1 THEN {} ELSE {i - 1}

\* the context=[...] of the task of each stage: the stages whose output it is given
TaskContext(i) ==
    CASE i = 1 -> {}
      [] i = 2 -> {1}
      [] i = 3 -> {1, 2}

\* the except clause of main's outer try: the page after it ran
CrewErrorUi(page) == (page \ {"progress", "info"}) \cup {"error:crew", "error_details"}

\* an except clause that starts the script run over
RetryAfterCrewError == "validate"

\* where main() goes after the outer except clause: the script run ends
AfterCrewError == "idle"

\* no try around generate_pdf: the outer except clause reports the failure
PdfErrorUiOuter(page) == CrewErrorUi(page)

\* the except clause of the try around generate_pdf: the page after it ran
PdfErrorUi(page) == page \cup {"warning:pdf"}

Bump(f) == [calls EXCEPT ![f] = @ + 1]

\* the characters of a-zA-Z0-9
AsciiAlnum ==
    Digits \cup
    {"a", "b", "c", "d", "e", "f", "g", "h", "i", "j", "k", "l", "m", "n", "o", "p",
     "q", "r", "s", "t", "u", "v", "w", "x", "y", "z",
     "A", "B", "C", "D", "E", "F", "G", "H", "I", "J", "K", "L", "M", "N", "O", "P",
     "Q", "R", "S", "T", "U", "V", "W", "X", "Y", "Z"}

\* the 40 of [:40]
NameLimit == 40

\* s[:n]
Take(s, n) == SubSeq(s, 1, IF Len(s) < n THEN Len(s) ELSE n)

RECURSIVE SubEachNonAlnum(_)
\* re.sub(r"[^a-zA-Z0-9]", "_", s): the pattern without its "+"
SubEachNonAlnum(s) ==
    IF s = <<>> THEN <<>>
    ELSE <<IF Head(s) \in AsciiAlnum THEN Head(s) ELSE "_">> \o SubEachNonAlnum(Tail(s))

RECURSIVE SubNonAlnum(_)
\* re.sub(r"[^a-zA-Z0-9]+", "_", s): each longest run of other characters
\* becomes one "_"
SubNonAlnum(s) ==
    IF s = <<>> THEN <<>>
    ELSE IF Head(s) \in AsciiAlnum THEN <<Head(s)>> \o SubNonAlnum(Tail(s))
    ELSE <<"_">> \o SubNonAlnum(LStripChars(Tail(s), Range(s) \ AsciiAlnum))

\* safe_name = re.sub(r"[^a-zA-Z0-9]+", "_", product_concept.strip())[:40]
SafeName(concept) == Take(SubNonAlnum(Strip(concept)), NameLimit)

NamePrefix == <<"A", "U", "R", "A", "_">>

NameSuffix == <<"_", "S", "t", "r", "a", "t", "e", "g", "y", ".", "p", "d", "f">>

\* file_name=f"AURA_{safe_name}_Strategy.pdf"
FileName(concept) == NamePrefix \o SafeName(concept) \o NameSuffix

\* how DuckDuckGoSearchRun().run(search_query) may end
SearchOutcomes == {"results", "raises"}

\* a web_search without the try: the exception of the search leaves it
web_search_unguarded(outcome) ==
    IF outcome = "raises" THEN [raised |-> TRUE, value |-> ""]
    ELSE [raised |-> FALSE, value |-> "results"]

\* try: return DuckDuckGoSearchRun().run(search_query)
\* except Exception as exc: return f"Search unavailable: {exc}"
web_search(outcome) ==
    IF outcome = "raises" THEN [raised |-> FALSE, value |-> "Search unavailable"]
    ELSE [raised |-> FALSE, value |-> "results"]

\* the button is clicked: streamlit runs main() from the top on a fresh page
Submit ==
    /\ pc = "idle"
    /\ runs < MaxRuns
    /\ \E concept \in Concepts : product_concept' = concept
    /\ runs' = runs + 1
    /\ pc' = "validate"
    /\ ui' = {}
    /\ calls' = [f \in Fns |-> 0]
    /\ api_key' = ""
    /\ stage' = 0
    /\ running' = 0
    /\ file_name' = <<>>
    /\ artifacts' = <<>>
    /\ contexts' = <<>>
    /\ searches' = <<>>
    /\ text' = <<>>
    /\ applied' = {}
    /\ sanitized' = <<>>
    /\ pdfSegs' = <<>>
    /\ htmlSegs' = <<>>
    /\ htmlOut' = <<>>
    /\ UNCHANGED <<secrets, environ, log>>

\* if not product_concept.strip(): st.warning(...); return
RejectConcept ==
    /\ pc = "validate"
    /\ ConceptIsEmpty(product_concept)
    /\ ui' = ui \cup {"warning:concept"}
    /\ log' = Append(log, "no_concept")
    /\ pc' = "idle"
    /\ UNCHANGED <<runs, product_concept, secrets, environ, api_key, calls, stage,
                   artifacts, contexts, searches>>
    /\ UNCHANGED <<running, file_name>>
    /\ UNCHANGED rvars

\* api_key = _get_api_key(); if not api_key: st.error(...); return
RejectApiKey ==
    /\ pc = "validate"
    /\ ~ConceptIsEmpty(product_concept)
    /\ NoApiKey(_get_api_key(secrets, environ))
    /\ api_key' = _get_api_key(secrets, environ)
    /\ ui' = ui \cup {"error:api_key"}
    /\ log' = Append(log, "no_api_key")
    /\ pc' = "idle"
    /\ UNCHANGED <<runs, product_concept, secrets, environ, calls, stage,
                   artifacts, contexts, searches>>
    /\ UNCHANGED <<running, file_name>>
    /\ UNCHANGED rvars

\* both checks pass: the progress bar and the status note are shown, then
\* run_aura_crew(...) builds the crew and calls crew.kickoff()
RunAuraCrew ==
    /\ pc = "validate"
    /\ ~ConceptIsEmpty(product_concept)
    /\ ~NoApiKey(_get_api_key(secrets, environ))
    /\ api_key' = _get_api_key(secrets, environ)
    /\ ui' = ui \cup {"progress", "info"}
    /\ calls' = Bump("run_aura_crew")
    /\ stage' = 1
    /\ pc' = "kickoff"
    /\ UNCHANGED <<runs, product_concept, secrets, environ, artifacts, contexts,
                   searches, log>>
    /\ UNCHANGED <<running, file_name>>
    /\ UNCHANGED rvars

\* the researcher uses its WebSearch tool.  web_search returns what
\* DuckDuckGoSearchRun().run returned, or its "Search unavailable: ..." text
\* when that raised.  Were web_search itself to raise, the exception would
\* leave kickoff and reach main's outer except clause.
WebSearch ==
    /\ pc = "kickoff"
    /\ running = 1
    /\ calls["web_search"] < MaxSearches
    /\ \E outcome \in SearchOutcomes :
           LET r == web_search(outcome) IN
           IF r.raised
           THEN /\ calls' = Bump("web_search")
                /\ searches' = Append(searches, [search |-> outcome, raised |-> TRUE,
                                                 returned |-> ""])
                /\ ui' = CrewErrorUi(ui)
                /\ log' = Append(log, "crew_error")
                /\ pc' = AfterCrewError
                /\ running' = 0
           ELSE /\ calls' = Bump("web_search")
                /\ searches' = Append(searches, [search |-> outcome, raised |-> FALSE,
                                                 returned |-> r.value])
                /\ UNCHANGED <<pc, ui, running, log>>
    /\ UNCHANGED <<runs, product_concept, secrets, environ, api_key, stage,
                   artifacts, contexts, file_name>>
    /\ UNCHANGED rvars

\* Process.sequential takes the next task of the list once no task is
\* executing: its description holds the product concept, and it is given
\* the outputs of the tasks of its context
StageStart ==
    /\ pc = "kickoff"
    /\ stage \in 1..3
    /\ running = 0
    /\ running' = stage
    /\ contexts' = Append(contexts,
                          [task |-> Tasks[stage],
                           concept |-> product_concept,
                           prior |-> [j \in TaskContext(stage) |-> artifacts[j]]])
    /\ UNCHANGED <<pc, runs, product_concept, secrets, environ, api_key, ui, calls,
                   stage, artifacts, searches, log, file_name>>
    /\ UNCHANGED rvars

\* the executing task completes: its agent's LLM answers
StageDone ==
    /\ pc = "kickoff"
    /\ stage \in 1..3
    /\ running = stage
    /\ calls' = Bump("llm")
    /\ \E answer \in (IF stage = 3 THEN StrategyTexts ELSE ArtifactTexts) :
           artifacts' = Append(artifacts, answer)
    /\ stage' = stage + 1
    /\ running' = 0
    /\ UNCHANGED <<pc, runs, product_concept, secrets, environ, api_key, ui,
                   contexts, searches, log, file_name>>
    /\ UNCHANGED rvars

\* the LLM call of the current stage raises: kickoff raises, run_aura_crew
\* raises, and main's outer except clause reports it
StageFail ==
    /\ pc = "kickoff"
    /\ stage \in 1..3
    /\ running = stage
    /\ calls' = Bump("llm")
    /\ ui' = CrewErrorUi(ui)
    /\ log' = Append(log, "crew_error")
    /\ pc' = AfterCrewError
    /\ running' = 0
    /\ UNCHANGED file_name
    /\ UNCHANGED <<runs, product_concept, secrets, environ, api_key, stage,
                   artifacts, contexts, searches>>
    /\ UNCHANGED rvars

\* kickoff returns; strategy_text = result.raw; st.success(...); the strategy
\* card with _markdown_to_safe_html(strategy_text) and the raw-text expander
DisplayStrategy ==
    /\ pc = "kickoff"
    /\ stage = 4
    /\ text' = artifacts[3]
    /\ calls' = Bump("_markdown_to_safe_html")
    /\ htmlSegs' = HtmlBody(artifacts[3])
    /\ htmlOut' = _markdown_to_safe_html(artifacts[3])
    /\ applied' = applied \cup {"html"}
    /\ ui' = (ui \ {"progress", "info"}) \cup {"success", "strategy", "raw_expander"}
    /\ pc' = "pdf"
    /\ UNCHANGED <<sanitized, pdfSegs>>
    /\ UNCHANGED <<running, file_name>>
    /\ UNCHANGED <<runs, product_concept, secrets, environ, api_key, stage,
                   artifacts, contexts, searches, log>>

\* pdf_bytes = generate_pdf(...) returns; st.download_button(...)
OfferDownload ==
    /\ pc = "pdf"
    /\ calls' = Bump("generate_pdf")
    /\ sanitized' = _sanitize_text(text)
    /\ pdfSegs' = PdfBody(text)
    /\ applied' = applied \cup {"sanitize", "pdf"}
    /\ ui' = ui \cup {"download"}
    /\ log' = Append(log, "ok")
    /\ pc' = "idle"
    /\ file_name' = FileName(product_concept)
    /\ UNCHANGED <<text, htmlSegs, htmlOut>>
    /\ UNCHANGED running
    /\ UNCHANGED <<runs, product_concept, secrets, environ, api_key, stage,
                   artifacts, contexts, searches>>

\* generate_pdf raises (a layout primitive of the PDF library fails): the
\* inner except clause warns, no download button is made
PdfFail ==
    /\ pc = "pdf"
    /\ calls' = Bump("generate_pdf")
    /\ ui' = PdfErrorUi(ui)
    /\ log' = Append(log, "pdf_error")
    /\ pc' = "idle"
    /\ UNCHANGED <<runs, product_concept, secrets, environ, api_key, stage,
                   artifacts, contexts, searches>>
    /\ UNCHANGED <<running, file_name>>
    /\ UNCHANGED rvars

Init ==
    /\ secrets \in KeySources
    /\ environ \in KeySources
    /\ text = <<>>
    /\ NotApplied
    /\ NoSession

Next ==
    \/ Submit
    \/ RejectConcept
    \/ RejectApiKey
    \/ RunAuraCrew
    \/ StageStart
    \/ WebSearch
    \/ StageDone
    \/ StageFail
    \/ DisplayStrategy
    \/ OfferDownload
    \/ PdfFail

\* a session of the app: the user submits, main() runs to its end, and so on
Spec == Init /\ [][Next]_vars

-----------------------------------------------------------------------------
(* Properties of main() *)

NothingInvoked == (\A f \in Fns : calls[f] = 0) /\ applied = {}

BlankConcept == \A i \in 1..Len(product_concept) : product_concept[i] \in Whitespace

\* the current script run has ended, and ended this way
Ended(how) == pc = "idle" /\ runs >= 1 /\ Len(log) = runs /\ log[runs] = how

\* the session is alive: the user can submit again (up to the model's bound)
CanResubmit == runs < MaxRuns => ENABLED Submit

\* C7: in a submission with an empty or all-blank product concept main()
\* warns and stops; run_aura_crew, the LLM, the web search and both
\* renderers are invoked zero times.
C7_EmptyConceptRejected ==
    (runs >= 1 /\ BlankConcept) =>
        /\ NothingInvoked
        /\ pc \in {"validate", "idle"}
        /\ pc = "idle" => "warning:concept" \in ui

\* C7 witness: an all-blank concept was submitted and the run has ended
\* with the warning.
C7_Witness ==
    /\ pc = "idle"
    /\ product_concept = <<" ", " ">>
    /\ "warning:concept" \in ui

\* C8: in a submission with a non-empty concept and no key in the secrets
\* store nor in the environment main() reports the configuration error and
\* stops; run_aura_crew and every collaborator are invoked zero times.
C8_MissingKeyRejected ==
    (runs >= 1 /\ ~BlankConcept /\ secrets \in {Absent, ""} /\ environ \in {Absent, ""}) =>
        /\ NothingInvoked
        /\ pc \in {"validate", "idle"}
        /\ pc = "idle" => "error:api_key" \in ui

\* C8 witness: a concept was submitted with no key anywhere and the run
\* has ended with the configuration error.
C8_Witness ==
    /\ pc = "idle"
    /\ product_concept = <<"a">>
    /\ secrets = Absent
    /\ environ = Absent
    /\ "error:api_key" \in ui

\* C9: run_aura_crew is called at most once per submission; when a stage
\* of the pipeline fails the run ends with the error shown, with neither
\* the strategy display nor the download, no renderer having run, and the
\* session still accepts a submission.
C9_CrewFailureAborts ==
    /\ calls["run_aura_crew"] <= 1
    /\ Ended("crew_error") =>
           /\ "error:crew" \in ui
           /\ ui \cap {"success", "strategy", "download"} = {}
           /\ calls["_markdown_to_safe_html"] = 0
           /\ calls["generate_pdf"] = 0
           /\ applied = {}
           /\ CanResubmit

\* C9 witness: the first submission ended with a pipeline failure, and the
\* pipeline runs again in the second.
C9_Witness ==
    /\ runs = 2
    /\ log = <<"crew_error">>
    /\ pc = "kickoff"
    /\ calls["run_aura_crew"] = 1

\* C10: when the pipeline succeeded and generate_pdf failed, the strategy
\* is displayed, a warning is shown, no download is offered, the failure is
\* not reported as a pipeline error and the session goes on; the strategy
\* is on the page before generate_pdf is called; a download is offered
\* only when generate_pdf returned.
C10_PdfFailureRecovered ==
    /\ Ended("pdf_error") =>
           /\ {"strategy", "warning:pdf"} \subseteq ui
           /\ ui \cap {"download", "error:crew", "error_details"} = {}
           /\ "html" \in applied
           /\ CanResubmit
    /\ pc = "pdf" => "strategy" \in ui
    /\ "download" \in ui => ("pdf" \in applied /\ pdfSegs # <<>>)

\* C10 witness: generate_pdf failed after the strategy was displayed.
C10_Witness ==
    /\ Ended("pdf_error")
    /\ calls["generate_pdf"] = 1
    /\ "strategy" \in ui
    /\ "warning:pdf" \in ui

-----------------------------------------------------------------------------
(* Properties of the crew *)

\* C11: the tasks run in the order research, strategy, execution, one at a
\* time; a task starts only when every earlier task has produced its
\* artifact, and it is given the product concept and the artifact of every
\* earlier task: research none, strategy the research artifact, execution
\* the research and the strategy artifacts.
C11_SequentialContext ==
    /\ Len(artifacts) <= Len(contexts)
    /\ Len(contexts) <= Len(artifacts) + 1
    /\ running # 0 =>
           /\ running = Len(contexts)
           /\ Len(artifacts) = running - 1
    /\ \A i \in 1..Len(contexts) :
           /\ contexts[i].task = <<"research", "strategy", "execution">>[i]
           /\ contexts[i].concept = product_concept
           /\ DOMAIN contexts[i].prior = 1..(i - 1)
           /\ \A j \in 1..(i - 1) : contexts[i].prior[j] = artifacts[j]

\* C11 witness: all three tasks have run, on different research and
\* strategy artifacts, and the execution task was given both.
C11_Witness ==
    /\ stage = 4
    /\ Len(contexts) = 3
    /\ artifacts[1] # artifacts[2]
    /\ contexts[3].prior = <<artifacts[1], artifacts[2]>>

\* C12: web_search never raises: for every failure of the underlying
\* search it returns the "Search unavailable" text; a run that ends with the
\* pipeline error ends so because an LLM call failed, never because of a
\* search; and after a failed search the researcher's task can still
\* complete.
C12_SearchFailureRecovered ==
    /\ Len(searches) = calls["web_search"]
    /\ \A i \in 1..Len(searches) :
           /\ ~searches[i].raised
           /\ searches[i].search = "raises" => searches[i].returned = "Search unavailable"
    /\ Ended("crew_error") => calls["llm"] = Len(artifacts) + 1
    /\ (pc = "kickoff" /\ running = 1) => ENABLED StageDone

\* C12 witness: the search failed during the research task, and the run
\* went on through all three stages to the download.
C12_Witness ==
    /\ Ended("ok")
    /\ Len(searches) >= 1
    /\ searches[1].search = "raises"
    /\ searches[1].returned = "Search unavailable"
    /\ Len(artifacts) = 3

-----------------------------------------------------------------------------
(* Properties of the inline emphasis *)

RECURSIVE Nested(_, _)
\* the <strong> and <em> elements of s are properly nested: each closing
\* tag closes the element opened last (open holds the open ones, last first)
Nested(s, open) ==
    IF s = <<>> THEN open = <<>>
    ELSE CASE Head(s) \in {"<strong>", "<em>"} ->
                  Nested(Tail(s), <<Head(s)>> \o open)
           [] Head(s) = "</strong>" ->
                  open # <<>> /\ Head(open) = "<strong>" /\ Nested(Tail(s), Tail(open))
           [] Head(s) = "</em>" ->
                  open # <<>> /\ Head(open) = "<em>" /\ Nested(Tail(s), Tail(open))
           [] OTHER -> Nested(Tail(s), open)

\* the line is "**x**" for a non-empty x that holds no asterisk
PlainBoldRun(stripped) ==
    /\ Len(stripped) >= 5
    /\ StartsWith(stripped, <<"*", "*">>)
    /\ EndsWith(stripped, <<"*", "*">>)
    /\ "*" \notin Range(SubSeq(stripped, 3, Len(stripped) - 2))

\* C13: on every non-heading line the italic pass leaves the elements of the
\* bold pass whole: no <em> opens inside a <strong> and closes outside it,
\* nor the reverse, and a "**x**" line is rendered as <strong>x</strong>,
\* never as <em>.
C13_ItalicKeepsBold ==
    \A i \in 1..Len(htmlSegs) :
        LET seg == htmlSegs[i] IN
        seg.kind \in {"paragraph", "bullet-item"} =>
            /\ Nested(seg.payload, <<>>)
            /\ PlainBoldRun(seg.stripped) =>
                   seg.payload = <<"<strong>">>
                                     \o SubSeq(seg.stripped, 3, Len(seg.stripped) - 2)
                                     \o <<"</strong>">>

-----------------------------------------------------------------------------
(* The download's file name *)

RECURSIVE Fill(_, _)
\* n characters made of repetitions of unit
Fill(unit, n) == IF n <= 0 THEN <<>> ELSE Take(unit, n) \o Fill(unit, n - Len(unit))

NameAlphabet == {"a", "_", " ", "U+00E9"}

\* product concepts, short ones and ones around the 40 characters of the cut
NameConcepts ==
    {head \o Fill(unit, n) \o tail :
        head \in TextsUpTo(NameAlphabet, MaxNameEdge),
        tail \in TextsUpTo(NameAlphabet, MaxNameEdge),
        unit \in {<<"a">>, <<"1", "-">>, <<"-">>},
        n \in {0, NameLimit - 1, NameLimit + 1}}

\* safe_name and file_name computed for the download button
MakeFileName ==
    /\ file_name = <<>>
    /\ file_name' = FileName(product_concept)
    /\ UNCHANGED <<pc, runs, product_concept, secrets, environ, api_key, ui, calls,
                   stage, running, artifacts, contexts, searches, log>>
    /\ UNCHANGED rvars

NameInit ==
    /\ product_concept \in NameConcepts
    /\ text = <<>>
    /\ NotApplied /\ NoRun /\ Unconfigured

\* the file name of one product concept
SpecFileName == NameInit /\ [][MakeFileName]_vars

\* the s of a file name "AURA_" + s + "_Strategy.pdf"
NameStem(name) == SubSeq(name, Len(NamePrefix) + 1, Len(name) - Len(NameSuffix))

\* the number of longest runs of characters outside a-zA-Z0-9 in s
NonAlnumRuns(s) ==
    Cardinality({i \in 1..Len(s) :
                    /\ s[i] \notin AsciiAlnum
                    /\ (i = 1 \/ s[i - 1] \in AsciiAlnum)})

\* C14: the file name is "AURA_" + s + "_Strategy.pdf" where s holds only
\* ASCII letters, digits and "_", never two "_" in a row, and at most 40
\* characters; when nothing was cut off, s holds the letters and digits of
\* the trimmed concept in their order and one "_" for each run of other
\* characters.
C14_FileName ==
    file_name # <<>> =>
        LET s == NameStem(file_name)
            trimmed == Strip(product_concept)
        IN /\ file_name = <<"A", "U", "R", "A", "_">> \o s
                              \o <<"_", "S", "t", "r", "a", "t", "e", "g", "y", ".", "p", "d", "f">>
           /\ Range(s) \subseteq AsciiAlnum \cup {"_"}
           /\ \A i \in 1..(Len(s) - 1) : ~(s[i] = "_" /\ s[i + 1] = "_")
           /\ Len(s) <= 40
           /\ Len(s) < 40 =>
                  /\ SelectSeq(s, LAMBDA c : c # "_")
                         = SelectSeq(trimmed, LAMBDA c : c \in AsciiAlnum)
                  /\ Cardinality({i \in 1..Len(s) : s[i] = "_"}) = NonAlnumRuns(trimmed)

\* C14 witness: a concept of more than 40 characters with runs of blanks,
\* underscores and an accented letter got its file name, cut at 40.
C14_Witness ==
    /\ Len(Strip(product_concept)) > 40
    /\ {"_", " ", "U+00E9"} \subseteq Range(product_concept)
    /\ file_name # <<>>
    /\ Len(NameStem(file_name)) = 40

=============================================================================
